---- MODULE Spec2Model ----
(***************************************************************************)
(* Bet settlement of the multi-operator casino backend.                    *)
(*                                                                         *)
(* BetService.placeBet runs inside db.transaction(tx => ...).  Only the    *)
(* statements issued through `tx` (game lookup, bonus-task select/update,  *)
(* bet-log insert) belong to that transaction.  WalletService,             *)
(* JackpotService, VIPService and VIPRewardService issue their statements  *)
(* through the module-level `db` handle, so each of them is a statement of *)
(* its own that commits at once and is visible to every other call.        *)
(* Every `await` on a statement that touches mutable rows is one step of   *)
(* the model; reads of static tables (games, vip_levels, the static        *)
(* columns of jackpot_pools) are folded into the neighbouring step.        *)
(*                                                                         *)
(* Money is counted in hundredths (the scale of the numeric(_, 2)          *)
(* columns); a value written to such a column is rounded to that scale.    *)
(***************************************************************************)
EXTENDS Integers, Sequences, FiniteSets, TLC

\* ------------------------------------------------------------------ bounds
\* the largest win multiplier the oracle returns, in halves of the wager
MaxHalf == 4

\* ------------------------------------------------------- program constants
\* numeric(_, 2): two decimal places, amounts are held in hundredths
Scale == 100
\* numeric(5, 4) contribution_rate: rates are held in ten-thousandths
RateScale == 10000
\* vipMultiplier of placeBet
VipMultiplier == 1

\* ------------------------------------------------------------ static data
\* the placeBet invocations of a behaviour, numbered in the order they start;
\* they may overlap in any way or follow one another
Calls == {1, 2}

Users == {"u1", "u2"}
Operators == {"o1", "o2"}

\* wallets that exist (created at registration); <<"u2","o2">> does not exist
WalletKeys == {<<"u1", "o1">>, <<"u1", "o2">>}
InputWallets == WalletKeys \cup {<<"u2", "o2">>}

NoGroup == "none"
MainGroup == "progressive_main"

\* games table; "g0" is an id without a row.  allowsBonus is the catalog
\* attribute of the product requirements ("Some games restrict bonus use");
\* the games table of the schema has no such column.  "g3" is a low-stake
\* game: a bet on it can leave the player below the first paying VIP level.
Games ==
  [ g1 |-> [minBet |-> 100, maxBet |-> 200, jackpotGroup |-> MainGroup,
            allowsBonus |-> TRUE],
    g2 |-> [minBet |-> 100, maxBet |-> 100, jackpotGroup |-> NoGroup,
            allowsBonus |-> FALSE],
    g3 |-> [minBet |-> 50, maxBet |-> 200, jackpotGroup |-> NoGroup,
            allowsBonus |-> TRUE] ]
\* the game ids the callers of the main specification offer
GameIds == {"g0", "g1", "g2"}

\* wagers offered by callers (hundredths)
Wagers == {50, 100, 200}

\* pool levels of MainGroup, in the order the rows are returned
LevelOrder == <<"mini", "major", "grand">>
Levels == {"mini", "major", "grand"}

\* vip_levels table
VipLevels ==
  << [level |-> 1, minExperience |-> 0,   cashbackRate |-> 0,  freeSpinsPerMonth |-> 0],
     [level |-> 2, minExperience |-> 100, cashbackRate |-> 10, freeSpinsPerMonth |-> 1],
     [level |-> 3, minExperience |-> 300, cashbackRate |-> 15, freeSpinsPerMonth |-> 2] >>

\* the columns of a bonus_tasks row (schema); task.wageringRequired and
\* task.awardedAmount, which updateWageringProgress reads, are not among them
BonusTaskColumns ==
  {"id", "userId", "operatorId", "type", "amount", "wageringMultiplier",
   "wagered", "isCompleted", "createdAt"}

\* "no bet type": the branch of placeBet that throws "Insufficient funds"
Null == "null"
\* the null of getJackpotValue (pool values are never negative)
NoValue == -1
\* JavaScript numbers that may be NaN: <<v>> is the number v, <<>> is NaN
NaN == <<>>

\* --------------------------------------------------------------- helpers
\* rounding of a non-negative quotient n/d to the nearest integer, half up:
\* what storing into a numeric column of fixed scale does
RoundDiv(n, d) == (2 * n + d) \div (2 * d)

\* Number(row[column]): NaN for a property the row does not have
NumberOf(row, column) ==
  IF column \in BonusTaskColumns THEN <<row[column]>> ELSE NaN

\* a >= b and a > b of JavaScript: every comparison with NaN is false
JsGe(a, b) == a # NaN /\ b # NaN /\ a[1] >= b[1]
JsGt(a, b) == a # NaN /\ b # NaN /\ a[1] > b[1]
\* a - b of JavaScript: NaN when either side is
JsMinus(a, b) == IF a = NaN \/ b = NaN THEN NaN ELSE <<a[1] - b[1]>>

VARIABLES
  wallets,      \* wallets table: key -> [realBalance, bonusBalance]
  pools,        \* jackpot_pools rows of MainGroup: level -> row
  experience,   \* users.vip_experience
  bonusTasks,   \* bonus_tasks table: sequence of rows, in creation order
  betLogs,      \* bet_logs table (committed rows)
  jackpots,     \* jackpots table (wins history)
  sent,         \* bet_outcome messages handed to WebSocketService
  calls,        \* the invocations of the services
  deposits,     \* deposits table: id -> row
  withdrawals,  \* withdrawals table: id -> row
  transactionLogs  \* transaction_log table: id -> row

vars == <<wallets, pools, experience, bonusTasks, betLogs, jackpots, sent,
          calls, deposits, withdrawals, transactionLogs>>

\* the tables of the finance schema
finvars == <<deposits, withdrawals, transactionLogs>>

dbvars == <<wallets, pools, experience, bonusTasks, betLogs, jackpots, finvars>>

\* ------------------------------------------------------------ pure helpers
\* bounds that exclude their end points
WagerOutOfBoundsStrict(game, wager) ==
  wager <= game.minBet \/ wager >= game.maxBet

\* placeBet lines 68-71: the wager is rejected when outside [minBet, maxBet]
WagerOutOfBounds(game, wager) == wager < game.minBet \/ wager > game.maxBet

\* placeBet lines 88-96: real if it covers the wager, else bonus if that
\* covers it, else no type (the throw of "Insufficient funds")
ChooseBetType(balances, wager) ==
  IF balances.realBalance >= wager THEN "real"
  ELSE IF balances.bonusBalance >= wager THEN "bonus"
  ELSE Null

\* getJackpotPoolsForGroup: the active levels of the group, as a sequence
ActiveLevels(group) ==
  IF group = MainGroup
  THEN SelectSeq(LevelOrder, LAMBDA l : pools[l].isActive)
  ELSE <<>>

\* calculateContributions: wager * contributionRate, kept as the numerator
\* over RateScale (the product is a fraction of a hundredth in general)
ContributionNum(wager, level) == wager * pools[level].contributionRate

\* a contribution that is cut off at the scale of the column
ContributedTruncated(value, wager, level) ==
  value + (ContributionNum(wager, level) \div RateScale)

\* contributeToJackpot: current_value + amount, stored at scale 2
Contributed(value, wager, level) ==
  value + RoundDiv(ContributionNum(wager, level), RateScale)

\* a reset that empties the pool
ResetToZero(level) == 0

\* awardJackpot lines 107-132: the value the pool is reset to
ResetValue(level) == pools[level].seedValue

\* getJackpotValue: the current value of an active pool, else null
GetJackpotValue(level) ==
  IF pools[level].isActive THEN pools[level].currentValue ELSE NoValue

\* The level lookups return the index of the row in VipLevels, 0 for null.
\* VIPService.getCurrentLevel: where(gte(minExperience, xp))
\* .orderBy(asc(minExperience)).limit(1)
GetCurrentLevel(xp) ==
  LET cand == {i \in DOMAIN VipLevels : VipLevels[i].minExperience >= xp}
  IN IF cand = {} THEN 0
     ELSE CHOOSE i \in cand :
            \A j \in cand : VipLevels[i].minExperience <= VipLevels[j].minExperience

\* VIPRewardService.getCurrentVIPLevel: where minExperience <= xp
\* order by minExperience desc limit 1
GetCurrentVIPLevel(xp) ==
  LET cand == {i \in DOMAIN VipLevels : VipLevels[i].minExperience <= xp}
  IN IF cand = {} THEN 0
     ELSE CHOOSE i \in cand :
            \A j \in cand : VipLevels[i].minExperience >= VipLevels[j].minExperience

\* VIPRewardService.getVIPLevel: the row with that level number
GetVIPLevel(level) ==
  LET cand == {i \in DOMAIN VipLevels : VipLevels[i].level = level}
  IN IF cand = {} THEN 0 ELSE CHOOSE i \in cand : TRUE

\* awardXP lines 334-346: the level reported as a level-up, 0 for none
LevelUpOf(currentXP, newXP) ==
  LET currentLevel == GetCurrentLevel(newXP)
      previousLevel == GetCurrentLevel(currentXP)
  IN IF currentLevel # 0
        /\ (previousLevel = 0
            \/ VipLevels[currentLevel].level > VipLevels[previousLevel].level)
     THEN VipLevels[currentLevel].level ELSE 0

\* a cashback that takes the level from the lookup awardXP uses
CashbackNumByAwardLookup(xp, lossAmount) ==
  LET vipLevel == GetCurrentLevel(xp)
  IN IF vipLevel = 0 \/ VipLevels[vipLevel].cashbackRate <= 0 THEN 0
     ELSE lossAmount * VipLevels[vipLevel].cashbackRate

\* applyCashback line 87-88: lossAmount * (cashbackRate / 100), as the
\* numerator over 100
CashbackNum(xp, lossAmount) ==
  LET vipLevel == GetCurrentVIPLevel(xp)
  IN IF vipLevel = 0 \/ VipLevels[vipLevel].cashbackRate <= 0 THEN 0
     ELSE lossAmount * VipLevels[vipLevel].cashbackRate

\* applyLevelUpRewards lines 46-55: the amount credited for reaching the
\* level with that number (0 for no level-up)
FreeSpinsAmount(level) ==
  IF level = 0 THEN 0
  ELSE VipLevels[GetVIPLevel(level)].freeSpinsPerMonth * Scale

\* a check that looks at the balance isReal does not select
BalanceOfOther(balances, isReal) ==
  IF isReal THEN balances.bonusBalance ELSE balances.realBalance

\* the balance that isReal selects (debitFromWallet lines 105-107)
BalanceOf(balances, isReal) ==
  IF isReal THEN balances.realBalance ELSE balances.bonusBalance

\* a credit that adds the amount twice
CreditToWalletTwice(w, key, amount, isReal) ==
  IF isReal THEN [w EXCEPT ![key].realBalance = @ + 2 * amount]
  ELSE [w EXCEPT ![key].bonusBalance = @ + 2 * amount]

\* a credit that lands on the column isReal does not select
CreditToWalletOther(w, key, amount, isReal) ==
  IF isReal THEN [w EXCEPT ![key].bonusBalance = @ + amount]
  ELSE [w EXCEPT ![key].realBalance = @ + amount]

\* creditToWallet lines 72-84: balance = balance + amount on the column
\* that isReal selects
CreditToWallet(w, key, amount, isReal) ==
  IF isReal THEN [w EXCEPT ![key].realBalance = @ + amount]
  ELSE [w EXCEPT ![key].bonusBalance = @ + amount]

\* a debit that takes the amount from both columns
DebitFromWalletBoth(w, key, amount, isReal) ==
  [w EXCEPT ![key].realBalance = @ - amount, ![key].bonusBalance = @ - amount]

\* debitFromWallet lines 118-135: balance = balance - amount on the column
\* that isReal selects
DebitFromWallet(w, key, amount, isReal) ==
  IF isReal THEN [w EXCEPT ![key].realBalance = @ - amount]
  ELSE [w EXCEPT ![key].bonusBalance = @ - amount]

\* the ledger of an invocation after a wallet row went from `before` to
\* `after` by one of its statements
Ledger(eff, before, after) ==
  [eff EXCEPT !.real = @ + (after.realBalance - before.realBalance),
              !.bonus = @ + (after.bonusBalance - before.bonusBalance)]

\* a selection that does not look at isCompleted
SelectTaskAny(tasks, user, operator) ==
  LET act == {i \in DOMAIN tasks :
                tasks[i].userId = user /\ tasks[i].operatorId = operator}
  IN IF act = {} THEN 0
     ELSE CHOOSE i \in act : \A j \in act : tasks[i].createdAt >= tasks[j].createdAt

\* updateWageringProgress lines 279-293: the not-completed tasks of the
\* wallet, newest first; the first one is taken.  0 when there is none.
SelectTask(tasks, user, operator) ==
  LET act == {i \in DOMAIN tasks :
                /\ tasks[i].userId = user /\ tasks[i].operatorId = operator
                /\ ~tasks[i].isCompleted}
  IN IF act = {} THEN 0
     ELSE CHOOSE i \in act : \A j \in act : tasks[i].createdAt >= tasks[j].createdAt

\* Number(task.wageringRequired): the rows of bonus_tasks carry amount and
\* wageringMultiplier and no wageringRequired column, so the property is
\* undefined and its Number is NaN
RequiredOf(task) == NumberOf(task, "wageringRequired")

\* Number(task.awardedAmount): no such column either
AwardedOf(task) == NumberOf(task, "awardedAmount")

\* outcomes the oracle may return: winAmount = wager * half / 2 (multiplier
\* Math.random() * 2 and above), with or without the jackpot flag
Outcomes ==
  { [half |-> 0, isJackpotWin |-> FALSE], [half |-> 1, isJackpotWin |-> FALSE],
    [half |-> MaxHalf, isJackpotWin |-> FALSE], [half |-> 1, isJackpotWin |-> TRUE] }

\* RNGService.generateOutcome line 866: winAmount = wager * multiplier
WinAmount(wager, outcome) == (wager * outcome.half) \div 2

NoBalances == [realBalance |-> 0, bonusBalance |-> 0]

\* what one invocation has written through autocommitted statements
NoEffect ==
  [real |-> 0, bonus |-> 0, pool |-> 0, xp |-> 0, debitReal |-> 0, debitBonus |-> 0]

IdleCall ==
  [ pc |-> "idle", userId |-> "", operatorId |-> "", gameId |-> "", wager |-> 0,
    betType |-> Null, balances |-> NoBalances, winAmount |-> 0,
    isJackpotWin |-> FALSE, todo |-> <<>>, contribNum |-> 0, jackpotAmount |-> 0,
    current |-> 0, updatedBalances |-> NoBalances, task |-> 0, newWagered |-> 0,
    wageringProgress |-> <<>>, currentXP |-> 0, levelUp |-> 0, cashbackNum |-> 0,
    txTask |-> <<>>, txLog |-> <<>>, result |-> "", eff |-> NoEffect,
    overdraft |-> FALSE, baseWin |-> 0, round |-> 0, credited |-> 0,
    landedRound |-> NoValue, inWindowOf |-> {} ]

Key(c) == <<calls[c].userId, calls[c].operatorId>>

\* the invocation ends: `throw` discards what the transaction buffered
\* (bonus-task update, bet-log row); the statements that went through `db`
\* stay.  Locals that nothing reads afterwards are cleared.
Finished(call, result) ==
  [ call EXCEPT !.pc = "done", !.result = result, !.todo = <<>>, !.current = 0,
                !.task = 0, !.newWagered = 0, !.txTask = <<>>, !.txLog = <<>>,
                !.currentXP = 0 ]

\* the step after the jackpot block (line 143)
AfterJackpot == "debitRead"

\* lines 47-111: parse, game lookup and bounds, first balance read and bet
\* type, the oracle, the list of contributions
PlaceBetBegin(c, userId, operatorId, gameId, wager, outcome) ==
  /\ calls[c].pc = "idle"
  /\ \A d \in Calls : d < c => calls[d].pc # "idle"
  /\ UNCHANGED <<dbvars, sent>>
  /\ LET in == [IdleCall EXCEPT !.userId = userId, !.operatorId = operatorId,
                                !.gameId = gameId, !.wager = wager]
     IN IF gameId \notin DOMAIN Games
        THEN calls' = [calls EXCEPT ![c] = Finished(in, "Game not found")]
        ELSE IF WagerOutOfBounds(Games[gameId], wager)
        THEN calls' = [calls EXCEPT ![c] = Finished(in, "Wager amount out of bounds")]
        ELSE IF <<userId, operatorId>> \notin DOMAIN wallets
        THEN calls' = [calls EXCEPT ![c] = Finished(in, "Wallet not found")]
        ELSE LET balances == wallets[<<userId, operatorId>>]
                 betType == ChooseBetType(balances, wager)
                 todo == ActiveLevels(Games[gameId].jackpotGroup)
             IN IF betType = Null
                THEN calls' = [calls EXCEPT ![c] =
                       Finished([in EXCEPT !.balances = balances], "Insufficient funds")]
                ELSE calls' = [calls EXCEPT ![c] =
                       [in EXCEPT !.balances = balances, !.betType = betType,
                                  !.winAmount = WinAmount(wager, outcome),
                                  !.baseWin = WinAmount(wager, outcome),
                                  !.isJackpotWin = outcome.isJackpotWin,
                                  !.todo = todo,
                                  !.pc = IF Games[gameId].jackpotGroup = NoGroup
                                         THEN AfterJackpot
                                         ELSE IF todo # <<>> THEN "contribute"
                                         ELSE IF outcome.isJackpotWin THEN "jackpotRead"
                                         ELSE AfterJackpot]]

\* the number of resets of the grand pool so far
Resets ==
  Cardinality({d \in Calls : /\ calls[d].jackpotAmount > 0
                             /\ calls[d].pc \notin {"awardInsert", "awardReset"}})

\* the awards that have read the grand pool and not yet reset it
\* (awardJackpot lines 98-133 runs between the two)
InWindow ==
  {d \in Calls : calls[d].pc \in {"awardInsert", "awardReset"}}

\* lines 113-120: one contributeToJackpot per listed level.  For the grand
\* pool the call notes after how many resets its contribution landed and
\* which awards were between their read and their reset at that moment.
Contribute(c) ==
  /\ calls[c].pc = "contribute"
  /\ LET level == Head(calls[c].todo)
         rest == Tail(calls[c].todo)
         value == Contributed(pools[level].currentValue, calls[c].wager, level)
     IN /\ pools' = [pools EXCEPT ![level].currentValue = value]
        /\ calls' = [calls EXCEPT
             ![c].todo = rest,
             ![c].landedRound = IF level = "grand" THEN Resets ELSE @,
             ![c].inWindowOf = IF level = "grand" THEN InWindow ELSE @,
             ![c].contribNum = @ + ContributionNum(calls[c].wager, level),
             ![c].eff.pool = @ + (value - pools[level].currentValue),
             ![c].pc = IF rest # <<>> THEN "contribute"
                       ELSE IF calls[c].isJackpotWin THEN "jackpotRead"
                       ELSE AfterJackpot]
  /\ UNCHANGED <<wallets, experience, bonusTasks, betLogs, jackpots, sent, finvars>>

\* lines 123-130: the value of the grand pool is read and added to the win;
\* `round` notes between which resets of the pool the value was read
JackpotRead(c) ==
  /\ calls[c].pc = "jackpotRead"
  /\ LET jackpotAmount == GetJackpotValue("grand")
     IN calls' = IF jackpotAmount # NoValue /\ jackpotAmount # 0
                 THEN [calls EXCEPT ![c].jackpotAmount = jackpotAmount,
                                    ![c].round = Resets + 1,
                                    ![c].winAmount = @ + jackpotAmount,
                                    ![c].pc = "awardInsert"]
                 ELSE [calls EXCEPT ![c].pc = AfterJackpot]
  /\ UNCHANGED <<dbvars, sent>>

\* awardJackpot lines 98-104: the win is recorded
AwardInsert(c) ==
  /\ calls[c].pc = "awardInsert"
  /\ jackpots' = Append(jackpots, [level |-> "grand", userId |-> calls[c].userId,
                                   amount |-> calls[c].jackpotAmount])
  /\ calls' = [calls EXCEPT ![c].pc = "awardReset"]
  /\ UNCHANGED <<wallets, pools, experience, bonusTasks, betLogs, sent, finvars>>

\* awardJackpot lines 107-133: the pool is set to its seed value
AwardReset(c) ==
  /\ calls[c].pc = "awardReset"
  /\ pools' = [pools EXCEPT !["grand"].currentValue = ResetValue("grand")]
  /\ calls' = [calls EXCEPT
       ![c].eff.pool = @ + (ResetValue("grand") - pools["grand"].currentValue),
       ![c].pc = AfterJackpot]
  /\ UNCHANGED <<wallets, experience, bonusTasks, betLogs, jackpots, sent, finvars>>

\* debitFromWallet lines 97-112: the fresh read and its two throws
DebitRead(c) ==
  /\ calls[c].pc = "debitRead"
  /\ LET current == BalanceOf(wallets[Key(c)], calls[c].betType = "real")
     IN calls' = IF current < calls[c].wager
                 THEN [calls EXCEPT ![c] = Finished(@, "Insufficient balance")]
                 ELSE [calls EXCEPT ![c].current = current, ![c].pc = "debitUpdate"]
  /\ UNCHANGED <<dbvars, sent>>

\* debitFromWallet lines 118-137: balance = balance - amount
DebitUpdate(c) ==
  /\ calls[c].pc = "debitUpdate"
  /\ LET isReal == calls[c].betType = "real"
         amount == calls[c].wager
         before == wallets[Key(c)]
         after == DebitFromWallet(wallets, Key(c), amount, isReal)[Key(c)]
     IN /\ wallets' = DebitFromWallet(wallets, Key(c), amount, isReal)
        /\ calls' = [calls EXCEPT
             ![c].eff = [Ledger(@, before, after) EXCEPT
                           !.debitReal = @ + (before.realBalance - after.realBalance),
                           !.debitBonus = @ + (before.bonusBalance - after.bonusBalance)],
             ![c].overdraft = BalanceOf(before, isReal) < amount,
             ![c].current = 0,
             ![c].pc = IF calls[c].winAmount > 0 THEN "creditWin" ELSE "readUpdated"]
  /\ UNCHANGED <<pools, experience, bonusTasks, betLogs, jackpots, sent, finvars>>

\* lines 153-160: the win is credited to the balance type of the wager
CreditWin(c) ==
  /\ calls[c].pc = "creditWin"
  /\ LET isReal == calls[c].betType = "real"
         amount == calls[c].winAmount
         after == CreditToWallet(wallets, Key(c), amount, isReal)
     IN /\ wallets' = after
        /\ calls' = [calls EXCEPT
             ![c].eff = Ledger(@, wallets[Key(c)], after[Key(c)]),
             ![c].credited = (after[Key(c)].realBalance - wallets[Key(c)].realBalance)
                               + (after[Key(c)].bonusBalance
                                    - wallets[Key(c)].bonusBalance),
             ![c].pc = "readUpdated"]
  /\ UNCHANGED <<pools, experience, bonusTasks, betLogs, jackpots, sent, finvars>>

\* a progress update that runs for every bet type
TracksWageringAlways(betType) == TRUE

\* updateWageringProgress line 277: only a bonus bet looks for a task
TracksWagering(betType) == betType = "bonus"

\* lines 163-170: updatedBalances
ReadUpdated(c) ==
  /\ calls[c].pc = "readUpdated"
  /\ calls' = [calls EXCEPT
       ![c].updatedBalances = wallets[Key(c)],
       ![c].pc = IF TracksWagering(calls[c].betType) THEN "taskSelect" ELSE "xpRead"]
  /\ UNCHANGED <<dbvars, sent>>

\* updateWageringProgress lines 279-294: the tasks are read inside the
\* transaction (committed rows; this invocation has written none yet)
TaskSelect(c) ==
  /\ calls[c].pc = "taskSelect"
  /\ LET t == SelectTask(bonusTasks, calls[c].userId, calls[c].operatorId)
     IN calls' = IF t = 0
                 THEN [calls EXCEPT ![c].pc = "xpRead"]
                 ELSE [calls EXCEPT ![c].task = t,
                                    ![c].newWagered = bonusTasks[t].wagered + calls[c].wager,
                                    ![c].pc = "taskUpdate"]
  /\ UNCHANGED <<dbvars, sent>>

\* lines 297-326: the update of the task inside the transaction (it waits
\* while another transaction holds an uncommitted write of the same row),
\* and, on completion, the credit of the remaining bonus (lines 307-318)
TaskUpdate(c) ==
  /\ calls[c].pc = "taskUpdate"
  /\ \A d \in Calls \ {c} :
       IF calls[d].txTask = <<>> THEN TRUE
       ELSE calls[d].txTask[1].id # calls[c].task
  /\ LET task == bonusTasks[calls[c].task]
         newWagered == <<calls[c].newWagered>>
         required == RequiredOf(task)
         completed == JsGe(newWagered, required)
         remainingBonus ==
           JsMinus(AwardedOf(task), <<calls[c].newWagered - calls[c].wager>>)
         convert == completed /\ JsGt(remainingBonus, <<0>>)
         after == IF convert
                  THEN CreditToWallet(wallets, Key(c), remainingBonus[1], TRUE)
                  ELSE wallets
     IN /\ wallets' = after
        /\ calls' = [calls EXCEPT
             ![c].txTask = <<[id |-> calls[c].task, wagered |-> calls[c].newWagered,
                              isCompleted |-> completed]>>,
             ![c].wageringProgress = <<[taskId |-> calls[c].task,
                                        wagered |-> calls[c].newWagered,
                                        isCompleted |-> completed]>>,
             ![c].eff = Ledger(@, wallets[Key(c)], after[Key(c)]),
             ![c].pc = "xpRead"]
  /\ UNCHANGED <<pools, experience, bonusTasks, betLogs, jackpots, sent, finvars>>

\* awardXP lines 311-322: the current experience is read
XpRead(c) ==
  /\ calls[c].pc = "xpRead"
  /\ calls' = [calls EXCEPT ![c].currentXP = experience[calls[c].userId],
                            ![c].pc = "xpUpdate"]
  /\ UNCHANGED <<dbvars, sent>>

\* the step after the XP award (lines 188-216)
AfterXp(call, levelUp) ==
  IF call.winAmount < call.wager THEN "cashbackRead"
  ELSE IF levelUp # 0 THEN "levelUpRewards"
  ELSE "logInsert"

\* an award that adds the amount twice
AwardedXpTwice(value, xpToAdd) == value + 2 * xpToAdd

\* awardXP lines 325-331: vip_experience = vip_experience + xpToAdd
AwardedXp(value, xpToAdd) == value + xpToAdd

\* awardXP lines 325-351: vip_experience = vip_experience + xpToAdd, and the
\* level-up decision from the values read before
XpUpdate(c) ==
  /\ calls[c].pc = "xpUpdate"
  /\ LET xpToAdd == calls[c].wager * VipMultiplier
         levelUp == LevelUpOf(calls[c].currentXP, calls[c].currentXP + xpToAdd)
         newValue == AwardedXp(experience[calls[c].userId], xpToAdd)
     IN /\ experience' = [experience EXCEPT ![calls[c].userId] = newValue]
        /\ calls' = [calls EXCEPT ![c].levelUp = levelUp,
                                  ![c].eff.xp = @ + (newValue - experience[calls[c].userId]),
                                  ![c].currentXP = 0,
                                  ![c].pc = AfterXp(calls[c], levelUp)]
  /\ UNCHANGED <<wallets, pools, bonusTasks, betLogs, jackpots, sent, finvars>>

\* applyCashback lines 72-88: the experience is read again and the cashback
\* computed from the level it gives
CashbackRead(c) ==
  /\ calls[c].pc = "cashbackRead"
  /\ LET num == CashbackNum(experience[calls[c].userId],
                            calls[c].wager - calls[c].winAmount)
     IN calls' = [calls EXCEPT
          ![c].cashbackNum = num,
          ![c].pc = IF num > 0 THEN "cashbackCredit"
                    ELSE IF calls[c].levelUp # 0 THEN "levelUpRewards"
                    ELSE "logInsert"]
  /\ UNCHANGED <<dbvars, sent>>

\* applyCashback lines 90-97: the cashback goes to the bonus balance
CashbackCredit(c) ==
  /\ calls[c].pc = "cashbackCredit"
  /\ LET amount == RoundDiv(calls[c].cashbackNum, 100)
         after == CreditToWallet(wallets, Key(c), amount, FALSE)
     IN /\ wallets' = after
        /\ calls' = [calls EXCEPT
             ![c].eff = Ledger(@, wallets[Key(c)], after[Key(c)]),
             ![c].pc = IF calls[c].levelUp # 0 THEN "levelUpRewards" ELSE "finalRead"]
  /\ UNCHANGED <<pools, experience, bonusTasks, betLogs, jackpots, sent, finvars>>

\* applyLevelUpRewards lines 40-55: the free spins of the new level are
\* credited to the bonus balance
LevelUpRewards(c) ==
  /\ calls[c].pc = "levelUpRewards"
  /\ LET amount == FreeSpinsAmount(calls[c].levelUp)
         after == IF amount > 0
                  THEN CreditToWallet(wallets, Key(c), amount, FALSE)
                  ELSE wallets
     IN /\ wallets' = after
        /\ calls' = [calls EXCEPT
             ![c].eff = Ledger(@, wallets[Key(c)], after[Key(c)]),
             ![c].pc = IF calls[c].cashbackNum > 0 THEN "finalRead" ELSE "logInsert"]
  /\ UNCHANGED <<pools, experience, bonusTasks, betLogs, jackpots, sent, finvars>>

\* lines 210-216: the balances are read again when cashback was applied
FinalRead(c) ==
  /\ calls[c].pc = "finalRead"
  /\ calls' = [calls EXCEPT ![c].updatedBalances = wallets[Key(c)],
                            ![c].pc = "logInsert"]
  /\ UNCHANGED <<dbvars, sent>>

\* lines 219-239: the bet-log row is inserted inside the transaction
LogInsert(c) ==
  /\ calls[c].pc = "logInsert"
  /\ calls' = [calls EXCEPT
       ![c].txLog = <<[ userId |-> calls[c].userId,
                        operatorId |-> calls[c].operatorId,
                        gameId |-> calls[c].gameId,
                        wager |-> calls[c].wager,
                        win |-> calls[c].winAmount,
                        betType |-> calls[c].betType,
                        preRealBalance |-> calls[c].balances.realBalance,
                        postRealBalance |-> calls[c].updatedBalances.realBalance,
                        preBonusBalance |-> calls[c].balances.bonusBalance,
                        postBonusBalance |-> calls[c].updatedBalances.bonusBalance,
                        jackpotContribution |-> RoundDiv(calls[c].contribNum, RateScale),
                        vipPointsAdded |-> calls[c].wager * VipMultiplier,
                        ggrContribution |-> calls[c].wager - calls[c].winAmount,
                        wageringProgress |-> calls[c].wageringProgress ]>>,
       ![c].pc = "broadcast"]
  /\ UNCHANGED <<dbvars, sent>>

\* lines 242-251: the bet_outcome message is handed to the WebSocket service
\* (broadcastToUser lines 37-43: ws.send for every connection of the user).
\* The call stands inside the try block of the transaction callback with
\* nothing around it: when send throws, the catch of lines 261-264 throws
\* it again, the transaction rolls back and placeBet rejects.
Broadcast(c, delivered) ==
  /\ calls[c].pc = "broadcast"
  /\ IF delivered
     THEN /\ sent' = sent \cup {c}
          /\ calls' = [calls EXCEPT ![c].pc = "commit"]
     ELSE /\ sent' = sent
          /\ calls' = [calls EXCEPT ![c] = Finished(@, "send failed")]
  /\ UNCHANGED dbvars

\* an insert that stores the row twice
InsertedTwice(table, row) == Append(Append(table, row), row)

\* lines 221-239: tx.insert(betLogs).values(row) adds one row to the table
Inserted(table, row) == Append(table, row)

\* lines 253-265: the callback returns and the transaction commits: the
\* buffered task update and bet-log row become rows of the tables
Commit(c) ==
  /\ calls[c].pc = "commit"
  /\ bonusTasks' = IF calls[c].txTask = <<>> THEN bonusTasks
                   ELSE [bonusTasks EXCEPT
                          ![calls[c].txTask[1].id].wagered = calls[c].txTask[1].wagered,
                          ![calls[c].txTask[1].id].isCompleted =
                             calls[c].txTask[1].isCompleted]
  /\ betLogs' = Inserted(betLogs, calls[c].txLog[1])
  /\ calls' = [calls EXCEPT ![c] = Finished(@, "ok")]
  /\ UNCHANGED <<wallets, pools, experience, jackpots, sent, finvars>>

\* --------------------------------------------------------- specification
\* no deposit and no withdrawal has been requested
NoFinance == deposits = <<>> /\ withdrawals = <<>> /\ transactionLogs = <<>>

\* seedJackpotPools: every pool starts at its seed value
SeededPools ==
  [l \in Levels |->
     CASE l = "mini"  -> [currentValue |-> 1000, seedValue |-> 1000,
                          contributionRate |-> 200, isActive |-> TRUE]
       [] l = "major" -> [currentValue |-> 5000, seedValue |-> 5000,
                          contributionRate |-> 100, isActive |-> FALSE]
       [] l = "grand" -> [currentValue |-> 10000, seedValue |-> 10000,
                          contributionRate |-> 175, isActive |-> TRUE]]

\* the rows of bonus_tasks
SeededTasks ==
  << [id |-> 1, userId |-> "u1", operatorId |-> "o1", type |-> "bonus",
      amount |-> 100, wageringMultiplier |-> 2, wagered |-> 0,
      isCompleted |-> FALSE, createdAt |-> 1],
     [id |-> 2, userId |-> "u1", operatorId |-> "o1", type |-> "bonus",
      amount |-> 100, wageringMultiplier |-> 1, wagered |-> 0,
      isCompleted |-> FALSE, createdAt |-> 2],
     [id |-> 3, userId |-> "u1", operatorId |-> "o2", type |-> "bonus",
      amount |-> 100, wageringMultiplier |-> 1, wagered |-> 0,
      isCompleted |-> FALSE, createdAt |-> 3] >>

\* the rows of wallets
SeededWallets ==
  [k \in WalletKeys |->
     IF k = <<"u1", "o1">>
     THEN [realBalance |-> 100, bonusBalance |-> 200]
     ELSE [realBalance |-> 0, bonusBalance |-> 200]]

Init ==
  /\ wallets = SeededWallets
  /\ pools = SeededPools
  /\ experience = [u \in Users |-> 0]
  /\ bonusTasks = SeededTasks
  /\ betLogs = <<>>
  /\ jackpots = <<>>
  /\ sent = {}
  /\ calls = [c \in Calls |-> IdleCall]
  /\ NoFinance

\* the jackpot flag of an outcome is read only for a game of a jackpot group
\* (line 107): for the other games the flagged outcome is the unflagged one
OutcomesOf(gameId) ==
  IF gameId \in DOMAIN Games /\ Games[gameId].jackpotGroup # NoGroup
  THEN Outcomes ELSE {o \in Outcomes : ~o.isJackpotWin}

Next ==
  \E c \in Calls :
    \/ \E k \in InputWallets, g \in GameIds, w \in Wagers :
         \E o \in OutcomesOf(g) : PlaceBetBegin(c, k[1], k[2], g, w, o)
    \/ Contribute(c)
    \/ JackpotRead(c)
    \/ AwardInsert(c)
    \/ AwardReset(c)
    \/ DebitRead(c)
    \/ DebitUpdate(c)
    \/ CreditWin(c)
    \/ ReadUpdated(c)
    \/ TaskSelect(c)
    \/ TaskUpdate(c)
    \/ XpRead(c)
    \/ XpUpdate(c)
    \/ CashbackRead(c)
    \/ CashbackCredit(c)
    \/ LevelUpRewards(c)
    \/ FinalRead(c)
    \/ LogInsert(c)
    \/ \E delivered \in BOOLEAN : Broadcast(c, delivered)
    \/ Commit(c)

Spec == Init /\ [][Next]_vars

\* the store aborts the transaction of an invocation with a conflict error
\* at the statement that writes a row other transactions write too, the
\* tx.update of bonus_tasks (lines 297-304), or when the callback has
\* returned and the transaction is to be committed (line 265).  placeBet
\* runs db.transaction once (line 49), with no loop around it, and its
\* catch throws the error again (lines 261-264): the error is what the
\* caller gets.
StoreConflict(c) ==
  /\ calls[c].pc \in {"taskUpdate", "commit"}
  /\ calls' = [calls EXCEPT ![c] = Finished(@, "TransactionConflict")]
  /\ UNCHANGED <<dbvars, sent>>

\* placeBet against a store that may signal conflicts
ConflictNext ==
  \/ Next
  \/ \E c \in Calls : StoreConflict(c)

ConflictSpec == Init /\ [][ConflictNext]_vars

\* the steps of placeBet from the debit of the wager on (lines 148-266)
SettleFromDebit(c) ==
  \/ DebitRead(c)
  \/ DebitUpdate(c)
  \/ CreditWin(c)
  \/ ReadUpdated(c)
  \/ TaskSelect(c)
  \/ TaskUpdate(c)
  \/ XpRead(c)
  \/ XpUpdate(c)
  \/ CashbackRead(c)
  \/ CashbackCredit(c)
  \/ LevelUpRewards(c)
  \/ FinalRead(c)
  \/ LogInsert(c)
  \/ \E delivered \in BOOLEAN : Broadcast(c, delivered)
  \/ Commit(c)

\* the statements of an invocation after its first
Settle(c) ==
  \/ Contribute(c)
  \/ JackpotRead(c)
  \/ AwardInsert(c)
  \/ AwardReset(c)
  \/ SettleFromDebit(c)

\* concurrent bets of distinct users on distinct wallets: invocation 1 is
\* u1 on operator o1, invocation 2 is u2 on operator o2
WalletOfCall(c) == IF c = 1 THEN <<"u1", "o1">> ELSE <<"u2", "o2">>

DistinctBalances ==
  [k \in {WalletOfCall(c) : c \in Calls} |->
     IF k = <<"u1", "o1">>
     THEN [realBalance |-> 100, bonusBalance |-> 200]
     ELSE [realBalance |-> 200, bonusBalance |-> 0]]

DistinctInit ==
  /\ wallets = DistinctBalances
  /\ pools = SeededPools
  /\ experience = [u \in Users |-> 0]
  /\ bonusTasks = SeededTasks
  /\ betLogs = <<>>
  /\ jackpots = <<>>
  /\ sent = {}
  /\ calls = [c \in Calls |-> IdleCall]
  /\ NoFinance

\* every bet is on an existing game, inside its bounds, and affordable
DistinctNext ==
  \E c \in Calls :
    \/ \E g \in GameIds \cap DOMAIN Games, w \in Wagers :
         \E o \in OutcomesOf(g) :
           /\ ~WagerOutOfBounds(Games[g], w)
           /\ ChooseBetType(wallets[WalletOfCall(c)], w) # Null
           /\ PlaceBetBegin(c, WalletOfCall(c)[1], WalletOfCall(c)[2], g, w, o)
    \/ Settle(c)

DistinctSpec == DistinctInit /\ [][DistinctNext]_vars

\* bets on the low-stake game "g3" (0.50 to 2.00, no jackpot group) on the
\* two wallets of u1: the experience after a bet may still be below the
\* threshold of level 2, the first level with a cashback rate
LowStakeNext ==
  \E c \in Calls :
    \/ \E k \in WalletKeys, w \in Wagers :
         \E o \in OutcomesOf("g3") : PlaceBetBegin(c, k[1], k[2], "g3", w, o)
    \/ SettleFromDebit(c)

LowStakeSpec == Init /\ [][LowStakeNext]_vars

\* a bonus_tasks table that holds completed rows: the newer task of wallet
\* u1/o1 and the task of wallet u1/o2 are completed, with the wagered their
\* requirement asks for
CompletedTasks ==
  [i \in DOMAIN SeededTasks |->
     IF i = 1 THEN SeededTasks[i]
     ELSE [SeededTasks[i] EXCEPT !.isCompleted = TRUE, !.wagered = 100]]

CompletedInit ==
  /\ wallets = SeededWallets
  /\ pools = SeededPools
  /\ experience = [u \in Users |-> 0]
  /\ bonusTasks = CompletedTasks
  /\ betLogs = <<>>
  /\ jackpots = <<>>
  /\ sent = {}
  /\ calls = [c \in Calls |-> IdleCall]
  /\ NoFinance

\* bets on the two wallets of u1 against that table
CompletedSpec == CompletedInit /\ [][LowStakeNext]_vars

\* experience values a user may hold when a bet starts (hundredths): the
\* thresholds of the vip_levels table and values between and around them
StartExperience == {0, 50, 100, 150, 200, 250, 300, 350}

LevelInit ==
  /\ wallets = SeededWallets
  /\ pools = SeededPools
  /\ experience \in {[u \in Users |-> IF u = "u1" THEN xp ELSE 0] :
                       xp \in StartExperience}
  /\ bonusTasks = SeededTasks
  /\ betLogs = <<>>
  /\ jackpots = <<>>
  /\ sent = {}
  /\ calls = [c \in Calls |-> IdleCall]
  /\ NoFinance

\* one bet of u1 on the low-stake game: awardXP looks the level up with
\* VIPService.getCurrentLevel, applyCashback with
\* VIPRewardService.getCurrentVIPLevel
LevelNext ==
  \/ \E k \in WalletKeys, w \in Wagers :
       \E o \in OutcomesOf("g3") : PlaceBetBegin(1, k[1], k[2], "g3", w, o)
  \/ SettleFromDebit(1)

LevelSpec == LevelInit /\ [][LevelNext]_vars

\* ---------------------------------------------- WalletService, called directly
\* three calls of creditToWallet / debitFromWallet, in any interleaving
WalletCalls == {1, 2, 3}
WalletAmounts == {50, 100}
WalletInputs == {<<"u1", "o1">>, <<"u2", "o2">>}

IdleWalletCall ==
  [ pc |-> "idle", op |-> "", userId |-> "", operatorId |-> "", amount |-> 0,
    isReal |-> TRUE, current |-> 0, result |-> "" ]

\* creditToWallet lines 50-85: one UPDATE balance = balance + amount;
\* "Wallet not found" when it updated no row
CreditToWalletCall(c, key, amount, isReal) ==
  /\ calls[c].pc = "idle"
  /\ \A d \in WalletCalls : d < c => calls[d].pc # "idle"
  /\ LET in == [IdleWalletCall EXCEPT !.op = "credit", !.userId = key[1],
                                      !.operatorId = key[2], !.amount = amount,
                                      !.isReal = isReal, !.pc = "done"]
     IN IF key \in DOMAIN wallets
        THEN /\ wallets' = CreditToWallet(wallets, key, amount, isReal)
             /\ calls' = [calls EXCEPT ![c] = [in EXCEPT !.result = "ok"]]
        ELSE /\ wallets' = wallets
             /\ calls' = [calls EXCEPT ![c] = [in EXCEPT !.result = "Wallet not found"]]
  /\ UNCHANGED <<pools, experience, bonusTasks, betLogs, jackpots, sent, finvars>>

\* debitFromWallet lines 90-112: the read of the balances and the two throws
DebitFromWalletRead(c, key, amount, isReal) ==
  /\ calls[c].pc = "idle"
  /\ \A d \in WalletCalls : d < c => calls[d].pc # "idle"
  /\ LET in == [IdleWalletCall EXCEPT !.op = "debit", !.userId = key[1],
                                      !.operatorId = key[2], !.amount = amount,
                                      !.isReal = isReal]
     IN calls' =
          IF key \notin DOMAIN wallets
          THEN [calls EXCEPT ![c] = [in EXCEPT !.pc = "done",
                                               !.result = "Wallet not found"]]
          ELSE IF BalanceOf(wallets[key], isReal) < amount
          THEN [calls EXCEPT ![c] = [in EXCEPT !.pc = "done",
                                               !.result = "Insufficient balance"]]
          ELSE [calls EXCEPT ![c] = [in EXCEPT !.pc = "update",
                                               !.current = BalanceOf(wallets[key], isReal)]]
  /\ UNCHANGED <<dbvars, sent>>

\* debitFromWallet lines 114-137: one UPDATE balance = balance - amount
DebitFromWalletUpdate(c) ==
  /\ calls[c].pc = "update"
  /\ wallets' = DebitFromWallet(wallets, Key(c), calls[c].amount, calls[c].isReal)
  /\ calls' = [calls EXCEPT ![c].pc = "done", ![c].result = "ok", ![c].current = 0]
  /\ UNCHANGED <<pools, experience, bonusTasks, betLogs, jackpots, sent, finvars>>

WalletInit ==
  /\ wallets = SeededWallets
  /\ pools = SeededPools
  /\ experience = [u \in Users |-> 0]
  /\ bonusTasks = SeededTasks
  /\ betLogs = <<>>
  /\ jackpots = <<>>
  /\ sent = {}
  /\ calls = [c \in WalletCalls |-> IdleWalletCall]
  /\ NoFinance

WalletNext ==
  \E c \in WalletCalls :
    \/ \E key \in WalletInputs, amount \in WalletAmounts, isReal \in BOOLEAN :
         CreditToWalletCall(c, key, amount, isReal)
    \/ \E key \in WalletInputs, amount \in WalletAmounts, isReal \in BOOLEAN :
         DebitFromWalletRead(c, key, amount, isReal)
    \/ DebitFromWalletUpdate(c)

WalletSpec == WalletInit /\ [][WalletNext]_vars

\* completeDeposit line 150: one free spin per 50.00 deposited, credited as
\* that many units of 1.00
DepositFreeSpins(amount) == (amount \div (50 * Scale)) * Scale

\* completeDeposit line 163: one XP per 10.00 deposited
DepositXp(amount) == (amount \div (10 * Scale)) * Scale

\* ------------------------------------------------------- TransactionService
\* two withdrawals of u1 are pending (requestWithdrawal lines 242-277 has
\* debited them and written a PENDING row and a PENDING log for each), and
\* two deposits of u1 are pending (initiateDeposit lines 59-89), the first
\* initiated at operator o1 and the second at operator o2
SeededWithdrawals ==
  << [userId |-> "u1", amount |-> 50, status |-> "PENDING"],
     [userId |-> "u1", amount |-> 100, status |-> "PENDING"] >>

SeededDeposits ==
  << [userId |-> "u1", amount |-> 5000, referenceId |-> "r1", status |-> "PENDING"],
     [userId |-> "u1", amount |-> 1000, referenceId |-> "r2", status |-> "PENDING"] >>

\* the log rows name their withdrawal or deposit in metadata (lines 88 and
\* 276); the second deposit was initiated at operator o2
SeededLogs ==
  << [userId |-> "u1", operatorId |-> "o1", type |-> "WITHDRAWAL",
      status |-> "PENDING", metadata |-> [withdrawalId |-> 1]],
     [userId |-> "u1", operatorId |-> "o1", type |-> "WITHDRAWAL",
      status |-> "PENDING", metadata |-> [withdrawalId |-> 2]],
     [userId |-> "u1", operatorId |-> "o1", type |-> "DEPOSIT",
      status |-> "PENDING", metadata |-> [depositId |-> 1]],
     [userId |-> "u1", operatorId |-> "o2", type |-> "DEPOSIT",
      status |-> "PENDING", metadata |-> [depositId |-> 2]] >>

\* the ids an admin action may name, and the references a webhook may carry
WithdrawalIds == {1, 2, 3}
References == {"r1", "r2", "r0"}

IdleFinanceCall ==
  [ pc |-> "idle", op |-> "", target |-> 0, reference |-> "", action |-> "",
    userId |-> "", operatorId |-> "", amount |-> 0, log |-> 0, currentXP |-> 0,
    levelUp |-> 0, writes |-> <<>>, credited |-> 0, result |-> "",
    inserts |-> <<>>, debited |-> 0 ]

\* the invocation ends; a throw discards the writes of its transaction
FinanceFinished(call, result) ==
  [ call EXCEPT !.pc = "done", !.result = result, !.writes = <<>>,
                !.inserts = <<>>, !.currentXP = 0, !.log = 0 ]

\* another transaction holds an uncommitted write of the row: an UPDATE of
\* the row waits until that transaction ends
RowLocked(c, table, id) ==
  \E d \in Calls \ {c} :
    \E i \in DOMAIN calls[d].writes :
      calls[d].writes[i].table = table /\ calls[d].writes[i].id = id

\* the PENDING log rows of a user and a type (lines 138-147, 316-325)
PendingLogs(user, type) ==
  {l \in DOMAIN transactionLogs :
     /\ transactionLogs[l].userId = user /\ transactionLogs[l].type = type
     /\ transactionLogs[l].status = "PENDING"}

\* lines 286-303: the withdrawal is looked up by id and status PENDING
ProcessWithdrawalBegin(c, id, action) ==
  /\ calls[c].pc = "idle"
  /\ \A d \in Calls : d < c => calls[d].pc # "idle"
  /\ LET in == [IdleFinanceCall EXCEPT !.op = "processWithdrawal", !.target = id,
                                       !.action = action]
     IN calls' =
          IF id \in DOMAIN withdrawals /\ withdrawals[id].status = "PENDING"
          THEN [calls EXCEPT ![c] = [in EXCEPT !.userId = withdrawals[id].userId,
                                              !.amount = withdrawals[id].amount,
                                              !.pc = "withdrawalUpdate"]]
          ELSE [calls EXCEPT ![c] =
                  FinanceFinished(in, "Withdrawal not found or already processed")]
  /\ UNCHANGED <<dbvars, sent>>

\* lines 305-317: the status of the withdrawal is set, by id
WithdrawalUpdate(c) ==
  /\ calls[c].pc = "withdrawalUpdate"
  /\ ~RowLocked(c, "withdrawals", calls[c].target)
  /\ calls' = [calls EXCEPT
       ![c].writes = Append(@, [table |-> "withdrawals", id |-> calls[c].target,
                                status |-> IF calls[c].action = "approve"
                                           THEN "COMPLETED" ELSE "REJECTED"]),
       ![c].pc = "withdrawalLog"]
  /\ UNCHANGED <<dbvars, sent>>

\* lines 319-333: a PENDING withdrawal log of the user is taken (limit 1,
\* no order: any of them)
WithdrawalLog(c) ==
  /\ calls[c].pc = "withdrawalLog"
  /\ \/ /\ PendingLogs(calls[c].userId, "WITHDRAWAL") = {}
        /\ calls' = [calls EXCEPT ![c] = FinanceFinished(@,
                       "Transaction log not found or operatorId is missing")]
     \/ \E l \in PendingLogs(calls[c].userId, "WITHDRAWAL") :
          calls' = [calls EXCEPT
            ![c].log = l,
            ![c].operatorId = transactionLogs[l].operatorId,
            ![c].pc = IF calls[c].action = "reject" THEN "refund" ELSE "logUpdate"]
  /\ UNCHANGED <<dbvars, sent>>

\* lines 335-343: a rejected withdrawal is credited back to the real balance
Refund(c) ==
  /\ calls[c].pc = "refund"
  /\ IF Key(c) \in DOMAIN wallets
     THEN /\ wallets' = CreditToWallet(wallets, Key(c), calls[c].amount, TRUE)
          /\ calls' = [calls EXCEPT ![c].credited = @ + calls[c].amount,
                                    ![c].pc = "logUpdate"]
     ELSE /\ wallets' = wallets
          /\ calls' = [calls EXCEPT ![c] = FinanceFinished(@, "Wallet not found")]
  /\ UNCHANGED <<pools, experience, bonusTasks, betLogs, jackpots, sent, finvars>>

\* what a request may ask for: the wallet of u1 at o1 or a wallet that does
\* not exist, an amount the seeded real balance covers or one it does not
RequestWallets == {<<"u1", "o1">>, <<"u2", "o2">>}
RequestAmounts == {50, 200}

\* requestWithdrawal lines 230-246: the input is parsed and the balances
\* are read for the log (null for a missing wallet)
RequestWithdrawalBegin(c, key, amount) ==
  /\ calls[c].pc = "idle"
  /\ \A d \in Calls : d < c => calls[d].pc # "idle"
  /\ calls' = [calls EXCEPT ![c] =
       [IdleFinanceCall EXCEPT !.op = "requestWithdrawal", !.userId = key[1],
                               !.operatorId = key[2], !.amount = amount,
                               !.pc = "requestRead"]]
  /\ UNCHANGED <<dbvars, sent>>

\* debitFromWallet lines 97-112, called at line 249: the fresh read of
\* the balances and the two throws
RequestDebitRead(c) ==
  /\ calls[c].pc = "requestRead"
  /\ calls' =
       IF Key(c) \notin DOMAIN wallets
       THEN [calls EXCEPT ![c] = FinanceFinished(@, "Wallet not found")]
       ELSE IF BalanceOf(wallets[Key(c)], TRUE) < calls[c].amount
       THEN [calls EXCEPT ![c] = FinanceFinished(@, "Insufficient balance")]
       ELSE [calls EXCEPT ![c].pc = "requestDebit"]
  /\ UNCHANGED <<dbvars, sent>>

\* debitFromWallet lines 118-137: the real balance is debited through the
\* module-level db handle, outside the transaction of requestWithdrawal
RequestDebitUpdate(c) ==
  /\ calls[c].pc = "requestDebit"
  /\ wallets' = DebitFromWallet(wallets, Key(c), calls[c].amount, TRUE)
  /\ calls' = [calls EXCEPT
       ![c].debited = @ + (wallets[Key(c)].realBalance - wallets'[Key(c)].realBalance),
       ![c].pc = "requestInsert"]
  /\ UNCHANGED <<pools, experience, bonusTasks, betLogs, jackpots, sent, finvars>>

\* lines 257-263: the PENDING withdrawal row is inserted inside the
\* transaction; the store may reject the statement, and the error leaves
\* the callback (there is no catch) and rolls the transaction back
RequestInsert(c, stored) ==
  /\ calls[c].pc = "requestInsert"
  /\ calls' =
       IF stored
       THEN [calls EXCEPT
               ![c].inserts = Append(@, [userId |-> calls[c].userId,
                                         amount |-> calls[c].amount,
                                         status |-> "PENDING"]),
               ![c].pc = "requestLog"]
       ELSE [calls EXCEPT ![c] = FinanceFinished(@, "insert failed")]
  /\ UNCHANGED <<dbvars, sent>>

\* lines 266-277: the PENDING transaction-log row is inserted inside the
\* transaction
RequestLogInsert(c, stored) ==
  /\ calls[c].pc = "requestLog"
  /\ calls' =
       IF stored
       THEN [calls EXCEPT
               ![c].inserts = Append(@, [userId |-> calls[c].userId,
                                         operatorId |-> calls[c].operatorId,
                                         type |-> "WITHDRAWAL",
                                         status |-> "PENDING",
                                         metadata |-> [withdrawalId |-> 0]]),
               ![c].pc = "requestCommit"]
       ELSE [calls EXCEPT ![c] = FinanceFinished(@, "insert failed")]
  /\ UNCHANGED <<dbvars, sent>>

\* lines 278-280: the callback returns, the transaction commits and the
\* two rows become rows of the tables (the id of the withdrawal, a fresh
\* UUID in the code, is its position in the table here)
RequestCommit(c) ==
  /\ calls[c].pc = "requestCommit"
  /\ withdrawals' = Inserted(withdrawals, calls[c].inserts[1])
  /\ transactionLogs' =
       Inserted(transactionLogs,
                [calls[c].inserts[2] EXCEPT
                   !.metadata = [withdrawalId |-> Len(withdrawals) + 1]])
  /\ calls' = [calls EXCEPT ![c] =
       [FinanceFinished(@, "ok") EXCEPT !.target = Len(withdrawals) + 1,
                                        !.log = Len(transactionLogs) + 1]]
  /\ UNCHANGED <<wallets, pools, experience, bonusTasks, betLogs, jackpots, sent,
                 deposits>>

\* lines 97-113: the deposit is looked up by reference and status PENDING
CompleteDepositBegin(c, reference) ==
  /\ calls[c].pc = "idle"
  /\ \A d \in Calls : d < c => calls[d].pc # "idle"
  /\ LET in == [IdleFinanceCall EXCEPT !.op = "completeDeposit",
                                       !.reference = reference]
         found == {i \in DOMAIN deposits : /\ deposits[i].referenceId = reference
                                           /\ deposits[i].status = "PENDING"}
     IN calls' =
          IF found = {}
          THEN [calls EXCEPT ![c] =
                  FinanceFinished(in, "Deposit not found or already processed")]
          ELSE LET i == CHOOSE x \in found : TRUE
               IN [calls EXCEPT ![c] = [in EXCEPT !.target = i,
                                                  !.userId = deposits[i].userId,
                                                  !.amount = deposits[i].amount,
                                                  !.pc = "depositLog"]]
  /\ UNCHANGED <<dbvars, sent>>

\* lines 115-131: a PENDING deposit log of the user is taken
DepositLog(c) ==
  /\ calls[c].pc = "depositLog"
  /\ \/ /\ PendingLogs(calls[c].userId, "DEPOSIT") = {}
        /\ calls' = [calls EXCEPT ![c] = FinanceFinished(@,
                       "Transaction log not found or operatorId is missing")]
     \/ \E l \in PendingLogs(calls[c].userId, "DEPOSIT") :
          calls' = [calls EXCEPT ![c].log = l,
                                 ![c].operatorId = transactionLogs[l].operatorId,
                                 ![c].pc = "depositCredit"]
  /\ UNCHANGED <<dbvars, sent>>

\* lines 133-147: the balances are read ("Wallet not found") and the amount
\* is credited to the real balance
DepositCredit(c) ==
  /\ calls[c].pc = "depositCredit"
  /\ IF Key(c) \in DOMAIN wallets
     THEN /\ wallets' = CreditToWallet(wallets, Key(c), calls[c].amount, TRUE)
          /\ calls' = [calls EXCEPT
               ![c].credited = @ + calls[c].amount,
               ![c].pc = IF DepositFreeSpins(calls[c].amount) > 0
                         THEN "depositFreeSpins" ELSE "depositXpRead"]
     ELSE /\ wallets' = wallets
          /\ calls' = [calls EXCEPT ![c] = FinanceFinished(@, "Wallet not found")]
  /\ UNCHANGED <<pools, experience, bonusTasks, betLogs, jackpots, sent, finvars>>

\* lines 149-159: the free spins go to the bonus balance
DepositFreeSpinsCredit(c) ==
  /\ calls[c].pc = "depositFreeSpins"
  /\ wallets' = CreditToWallet(wallets, Key(c), DepositFreeSpins(calls[c].amount), FALSE)
  /\ calls' = [calls EXCEPT ![c].pc = "depositXpRead"]
  /\ UNCHANGED <<pools, experience, bonusTasks, betLogs, jackpots, sent, finvars>>

\* awardXP lines 311-322, called from line 161
DepositXpRead(c) ==
  /\ calls[c].pc = "depositXpRead"
  /\ calls' = [calls EXCEPT ![c].currentXP = experience[calls[c].userId],
                            ![c].pc = "depositXpUpdate"]
  /\ UNCHANGED <<dbvars, sent>>

\* awardXP lines 325-351
DepositXpUpdate(c) ==
  /\ calls[c].pc = "depositXpUpdate"
  /\ LET xpToAdd == DepositXp(calls[c].amount)
         levelUp == LevelUpOf(calls[c].currentXP, calls[c].currentXP + xpToAdd)
     IN /\ experience' = [experience EXCEPT
                            ![calls[c].userId] = AwardedXp(@, xpToAdd)]
        /\ calls' = [calls EXCEPT ![c].levelUp = levelUp, ![c].currentXP = 0,
                                  ![c].pc = IF levelUp # 0 THEN "depositLevelUp"
                                            ELSE "depositUpdate"]
  /\ UNCHANGED <<wallets, pools, bonusTasks, betLogs, jackpots, sent, finvars>>

\* lines 167-174: applyLevelUpRewards
DepositLevelUp(c) ==
  /\ calls[c].pc = "depositLevelUp"
  /\ wallets' = IF FreeSpinsAmount(calls[c].levelUp) > 0
                THEN CreditToWallet(wallets, Key(c),
                                    FreeSpinsAmount(calls[c].levelUp), FALSE)
                ELSE wallets
  /\ calls' = [calls EXCEPT ![c].pc = "depositUpdate"]
  /\ UNCHANGED <<pools, experience, bonusTasks, betLogs, jackpots, sent, finvars>>

\* lines 176-184: the deposit is set to COMPLETED, by id
DepositUpdate(c) ==
  /\ calls[c].pc = "depositUpdate"
  /\ ~RowLocked(c, "deposits", calls[c].target)
  /\ calls' = [calls EXCEPT
       ![c].writes = Append(@, [table |-> "deposits", id |-> calls[c].target,
                                status |-> "COMPLETED"]),
       ![c].pc = "logUpdate"]
  /\ UNCHANGED <<dbvars, sent>>

\* lines 186-197 and 345-354: the log row is set to the new status, by id
LogUpdate(c) ==
  /\ calls[c].pc = "logUpdate"
  /\ ~RowLocked(c, "transactionLogs", calls[c].log)
  /\ calls' = [calls EXCEPT
       ![c].writes = Append(@, [table |-> "transactionLogs", id |-> calls[c].log,
                                status |-> IF calls[c].action = "reject"
                                           THEN "REJECTED" ELSE "COMPLETED"]),
       ![c].pc = "notify"]
  /\ UNCHANGED <<dbvars, sent>>

\* lines 199-222 and 356-380: the messages to the user and the admins are
\* sent inside the transaction callback; a send that throws rejects the call
Notify(c, delivered) ==
  /\ calls[c].pc = "notify"
  /\ IF delivered
     THEN /\ sent' = sent \cup {c}
          /\ calls' = [calls EXCEPT ![c].pc = "financeCommit"]
     ELSE /\ sent' = sent
          /\ calls' = [calls EXCEPT ![c] = FinanceFinished(@, "send failed")]
  /\ UNCHANGED dbvars

\* the rows of a table after the writes of a transaction
Written(rows, table, writes) ==
  [i \in DOMAIN rows |->
     LET mine == {j \in DOMAIN writes : writes[j].table = table /\ writes[j].id = i}
     IN IF mine = {} THEN rows[i]
        ELSE [rows[i] EXCEPT !.status = writes[CHOOSE j \in mine : TRUE].status]]

\* lines 223 and 381: the callback returns and the transaction commits
FinanceCommit(c) ==
  /\ calls[c].pc = "financeCommit"
  /\ deposits' = Written(deposits, "deposits", calls[c].writes)
  /\ withdrawals' = Written(withdrawals, "withdrawals", calls[c].writes)
  /\ transactionLogs' = Written(transactionLogs, "transactionLogs", calls[c].writes)
  /\ calls' = [calls EXCEPT ![c] = FinanceFinished(@, "ok")]
  /\ UNCHANGED <<wallets, pools, experience, bonusTasks, betLogs, jackpots, sent>>

FinanceInit ==
  /\ wallets = SeededWallets
  /\ pools = SeededPools
  /\ experience = [u \in Users |-> 0]
  /\ bonusTasks = SeededTasks
  /\ betLogs = <<>>
  /\ jackpots = <<>>
  /\ sent = {}
  /\ calls = [c \in Calls |-> IdleFinanceCall]
  /\ deposits = SeededDeposits
  /\ withdrawals = SeededWithdrawals
  /\ transactionLogs = SeededLogs

FinanceNext ==
  \E c \in Calls :
    \/ \E id \in WithdrawalIds, action \in {"approve", "reject"} :
         ProcessWithdrawalBegin(c, id, action)
    \/ WithdrawalUpdate(c)
    \/ WithdrawalLog(c)
    \/ Refund(c)
    \/ \E key \in RequestWallets, amount \in RequestAmounts :
         RequestWithdrawalBegin(c, key, amount)
    \/ RequestDebitRead(c)
    \/ RequestDebitUpdate(c)
    \/ \E stored \in BOOLEAN : RequestInsert(c, stored)
    \/ \E stored \in BOOLEAN : RequestLogInsert(c, stored)
    \/ RequestCommit(c)
    \/ \E reference \in References : CompleteDepositBegin(c, reference)
    \/ DepositLog(c)
    \/ DepositCredit(c)
    \/ DepositFreeSpinsCredit(c)
    \/ DepositXpRead(c)
    \/ DepositXpUpdate(c)
    \/ DepositLevelUp(c)
    \/ DepositUpdate(c)
    \/ LogUpdate(c)
    \/ \E delivered \in BOOLEAN : Notify(c, delivered)
    \/ FinanceCommit(c)

FinanceSpec == FinanceInit /\ [][FinanceNext]_vars

\* ------------------------------------------------------------- properties
\* the invocation returned its result (line 253) / threw (lines 261-264)
Succeeded(c) == calls[c].pc = "done" /\ calls[c].result = "ok"
Failed(c) == calls[c].pc = "done" /\ calls[c].result # "ok"

\* C1: a placeBet that fails leaves nothing of its own behind: the net
\* effect of its writes on the wallet, the jackpot pools and the experience
\* is zero.
C1_AllOrNothing ==
  \A c \in Calls : Failed(c) => calls[c].eff = NoEffect

\* C2: two placeBet invocations on the same wallet and balance type never
\* both succeed when one of them debited a balance that, at the time of the
\* debit, no longer covered its wager (it had passed its checks on a value
\* read before the other's debit).
C2_NoStaleDoubleSpend ==
  \A c, d \in Calls :
    (c # d /\ Succeeded(c) /\ Succeeded(d) /\ Key(c) = Key(d)
       /\ calls[c].betType = calls[d].betType)
    => ~calls[c].overdraft

\* C3: the real and the bonus balance of every wallet are never negative.
C3_BalancesNonNegative ==
  \A k \in WalletKeys :
    wallets[k].realBalance >= 0 /\ wallets[k].bonusBalance >= 0

C5_ExactlyOneBalanceDebited ==
  \A c \in Calls :
    Succeeded(c) =>
      IF calls[c].betType = "real"
      THEN calls[c].eff.debitReal = calls[c].wager /\ calls[c].eff.debitBonus = 0
      ELSE calls[c].eff.debitBonus = calls[c].wager /\ calls[c].eff.debitReal = 0

\* a real-funded and a bonus-funded bet have both succeeded
C5_Reached ==
  \E c, d \in Calls :
    /\ Succeeded(c) /\ calls[c].betType = "real"
    /\ Succeeded(d) /\ calls[d].betType = "bonus"

\* C6: the bet is funded from the real balance when that covers the wager;
\* from the bonus balance only when the real balance does not, the bonus
\* balance does, and the game permits bonus play; and it is rejected with
\* "Insufficient funds" when neither holds.
C6_BetTypeChoice ==
  \A c \in Calls :
    (calls[c].betType # Null \/ calls[c].result = "Insufficient funds") =>
      LET b == calls[c].balances
          w == calls[c].wager
          game == Games[calls[c].gameId]
          fromBonus == b.realBalance < w /\ b.bonusBalance >= w /\ game.allowsBonus
      IN /\ (calls[c].betType = "real") <=> (b.realBalance >= w)
         /\ (calls[c].betType = "bonus") <=> fromBonus
         /\ (calls[c].result = "Insufficient funds")
              <=> ~(b.realBalance >= w \/ fromBonus)

\* C7: a placeBet that ends in one of the errors of the game, bounds, funds,
\* wallet and pool checks has written nothing: the error came before any
\* mutation.  ("Jackpot pool not found" needs a pool row to vanish between
\* two statements of one bet; no operation deletes pool rows.)
C7_ErrorsBeforeMutation ==
  \A c \in Calls :
    (calls[c].pc = "done"
       /\ calls[c].result \in {"Game not found", "Wager amount out of bounds",
                               "Insufficient funds", "Insufficient balance",
                               "Wallet not found", "Jackpot pool not found"})
    => calls[c].eff = NoEffect

\* C8: a placeBet on an existing game with a wager below minBet or above
\* maxBet is rejected with "Wager amount out of bounds" and leaves every
\* table as it was; a wager inside the bounds, the bounds included, is not
\* rejected for that reason.
C8_WagerBounds ==
  [][\A c \in Calls :
       (calls[c].pc = "idle" /\ calls'[c].pc # "idle"
          /\ calls'[c].gameId \in DOMAIN Games)
       => LET game == Games[calls'[c].gameId]
              w == calls'[c].wager
              rejected == calls'[c].result = "Wager amount out of bounds"
          IN /\ (w < game.minBet \/ w > game.maxBet)
                  => (rejected /\ calls'[c].pc = "done" /\ UNCHANGED <<dbvars, sent>>)
             /\ (game.minBet <= w /\ w <= game.maxBet) => ~rejected]_vars

\* one bet was rejected for its wager, one with wager = maxBet went through
C8_Reached ==
  \E c, d \in Calls :
    /\ calls[c].result = "Wager amount out of bounds"
    /\ Succeeded(d) /\ calls[d].wager = Games[calls[d].gameId].maxBet

\* the statement of invocation c that is taken in a step
StepOf(c, pc) == calls[c].pc = pc /\ calls'[c] # calls[c]

\* the jackpot reset of every step is to the seed value
ResetToSeed ==
  \A c \in Calls :
    StepOf(c, "awardReset") =>
      pools'["grand"].currentValue = pools["grand"].seedValue

\* C9 (as stated): a contribution takes the pool level to exactly
\* previousValue + wager * contributionRate; an award takes the pool to its
\* seedValue.
C9_ExactContribution ==
  [][/\ \A c \in Calls :
          StepOf(c, "contribute") =>
            LET level == Head(calls[c].todo)
            IN RateScale * (pools'[level].currentValue - pools[level].currentValue)
                 = calls[c].wager * pools[level].contributionRate
     /\ ResetToSeed]_vars

\* the sum over the levels of the contribution at the scale of the column
RECURSIVE StoredContributions(_, _)
StoredContributions(wager, levels) ==
  IF levels = <<>> THEN 0
  ELSE RoundDiv(wager * pools[Head(levels)].contributionRate, RateScale)
         + StoredContributions(wager, Tail(levels))

\* C9 (amended): a contribution takes the pool level to previousValue +
\* wager * contributionRate rounded to the two decimals of the column, and
\* leaves the other levels alone; a bet that has not been awarded the
\* jackpot has, once its contributions are done, raised the pools by that
\* amount for each active level of the group; an award takes the pool to
\* its seedValue.
C9_RoundedContribution ==
  /\ [][/\ \A c \in Calls :
             StepOf(c, "contribute") =>
               LET level == Head(calls[c].todo)
               IN /\ pools'[level].currentValue
                       = pools[level].currentValue
                           + RoundDiv(calls[c].wager * pools[level].contributionRate,
                                      RateScale)
                  /\ \A l \in Levels \ {level} : pools'[l] = pools[l]
        /\ ResetToSeed]_vars
  /\ [](\A c \in Calls :
          (calls[c].betType # Null /\ calls[c].pc # "contribute"
             /\ calls[c].jackpotAmount = 0)
          => calls[c].eff.pool
               = StoredContributions(calls[c].wager,
                                     ActiveLevels(Games[calls[c].gameId].jackpotGroup)))

\* a bet without the jackpot has contributed a rounded amount and finished,
\* and another bet was awarded the jackpot
C9_Reached ==
  \E c, d \in Calls :
    /\ Succeeded(c) /\ calls[c].jackpotAmount = 0 /\ calls[c].eff.pool > 0
    /\ calls[c].contribNum # RateScale * calls[c].eff.pool
    /\ Succeeded(d) /\ calls[d].jackpotAmount > 0

\* C10: the current value of every jackpot pool is at least its seed value.
C10_PoolAtLeastSeed ==
  \A l \in Levels : pools[l].currentValue >= pools[l].seedValue

\* the grand pool was reset by an award and has grown again since
C10_Reached ==
  /\ jackpots # <<>>
  /\ pools["grand"].currentValue > pools["grand"].seedValue

\* C11: a bet that was awarded the jackpot reports and is credited its
\* base win plus the pool value it read, and the reset of the pool and that
\* payout stand or fall together: no bet ends with the pool reset and the
\* payout not made.
C11_JackpotPaidWithReset ==
  \A c \in Calls :
    (calls[c].pc = "done" /\ calls[c].jackpotAmount > 0) =>
      /\ calls[c].winAmount = calls[c].baseWin + calls[c].jackpotAmount
      /\ calls[c].credited = calls[c].winAmount

\* C12: between two consecutive resets of the grand pool at most one bet is
\* paid the value of the pool: two bets that were both paid a jackpot read
\* the pool in different rounds.
C12_OneAwardPerRound ==
  \A c, d \in Calls :
    (c # d /\ calls[c].jackpotAmount > 0 /\ calls[c].credited > 0
           /\ calls[d].jackpotAmount > 0 /\ calls[d].credited > 0)
    => calls[c].round # calls[d].round

\* what the invocations in S have added to the experience of the user
RECURSIVE XpAwarded(_, _)
XpAwarded(user, S) ==
  IF S = {} THEN 0
  ELSE LET c == CHOOSE x \in S : TRUE
       IN (IF calls[c].userId = user THEN calls[c].eff.xp ELSE 0)
            + XpAwarded(user, S \ {c})

LevelOf(xp) ==
  LET sat == {VipLevels[i].level : i \in {j \in DOMAIN VipLevels :
                                           VipLevels[j].minExperience <= xp}}
  IN IF sat = {} THEN 0 ELSE CHOOSE l \in sat : \A k \in sat : l >= k

\* the number of the level a lookup returned (0 for null)
LevelNumber(i) == IF i = 0 THEN 0 ELSE VipLevels[i].level

\* C14: awardXP reports a level-up exactly when the highest level satisfied
\* by the experience after the award is above the highest level satisfied
\* by the experience before it.
C14_LevelUpIffLevelRises ==
  [][\A c \in Calls :
       StepOf(c, "xpUpdate") =>
         LET before == calls[c].currentXP
             after == calls[c].currentXP + calls[c].wager * VipMultiplier
         IN (calls'[c].levelUp # 0) <=> (LevelOf(after) > LevelOf(before))]_vars

\* C15: the level getCurrentLevel derives for an experience value is the
\* highest level whose minExperience is at most that value (null only when
\* there is none); checked on the two values awardXP looks up.
C15_CurrentLevelIsHighestSatisfied ==
  \A c \in Calls :
    calls[c].pc = "xpUpdate" =>
      \A xp \in {calls[c].currentXP,
                 calls[c].currentXP + calls[c].wager * VipMultiplier} :
        LevelNumber(GetCurrentLevel(xp)) = LevelOf(xp)

RECURSIVE Routed(_, _)
Routed(t, S) ==
  IF S = {} THEN 0
  ELSE LET c == CHOOSE x \in S : TRUE
       IN (IF Succeeded(c) /\ calls[c].wageringProgress # <<>>
           THEN IF calls[c].wageringProgress[1].taskId = t THEN calls[c].wager ELSE 0
           ELSE 0)
            + Routed(t, S \ {c})

\* C17: the wagered of a task that is not completed never decreases, and it
\* never exceeds the sum of the bonus wagers routed to the task.
C17_WageredMonotoneAndBounded ==
  /\ [][\A t \in DOMAIN bonusTasks :
          ~bonusTasks[t].isCompleted
          => bonusTasks'[t].wagered >= bonusTasks[t].wagered]_vars
  /\ [](\A t \in DOMAIN bonusTasks : bonusTasks[t].wagered <= Routed(t, Calls))

\* the wagering requirement of a task: amount * wageringMultiplier
Requirement(task) == task.amount * task.wageringMultiplier

\* the bets that credited a conversion of task t to the real balance
Conversions(t) ==
  {c \in Calls : /\ calls[c].betType = "bonus"
                 /\ calls[c].wageringProgress # <<>>
                 /\ calls[c].eff.real > 0
                 /\ calls[c].wageringProgress[1].taskId = t}

\* C18: a task whose wagered has reached its requirement is completed and
\* its remaining bonus was credited to the real balance by exactly one bet;
\* no task is ever converted by more than one bet.
C18_CompletionExactlyOnce ==
  \A t \in DOMAIN bonusTasks :
    /\ Cardinality(Conversions(t)) <= 1
    /\ bonusTasks[t].wagered >= Requirement(bonusTasks[t])
         => bonusTasks[t].isCompleted /\ Cardinality(Conversions(t)) = 1

\* C19: the bet that takes the wagered of a task from below its requirement
\* to the requirement or above credits awardedAmount - wageredBeforeThisBet
\* to the real balance, and the task it committed is completed.
C19_ConversionAmount ==
  \A c \in Calls :
    (Succeeded(c) /\ calls[c].wageringProgress # <<>>) =>
      LET t == calls[c].wageringProgress[1].taskId
          after == calls[c].wageringProgress[1].wagered
          before == after - calls[c].wager
          remaining == bonusTasks[t].amount - before
      IN (before < Requirement(bonusTasks[t]) /\ after >= Requirement(bonusTasks[t]))
         => /\ calls[c].eff.real = IF remaining > 0 THEN remaining ELSE 0
            /\ calls[c].wageringProgress[1].isCompleted

\* C20: when a bonus-funded bet is settled, with no other bet in flight, and
\* leaves the bonus balance of the wallet below the minimum bet of the game,
\* the wallet has no active task left.
C20_TaskDeletedBelowMinBet ==
  [][\A c \in Calls :
       (StepOf(c, "commit") /\ calls[c].betType = "bonus"
          /\ (\A d \in Calls \ {c} : calls[d].pc \in {"idle", "done"})
          /\ wallets[Key(c)].bonusBalance < Games[calls[c].gameId].minBet)
       => SelectTask(bonusTasks', calls[c].userId, calls[c].operatorId) = 0]_vars

\* C21: a failure to deliver the post-bet notification (send throwing) never
\* rolls back the bet and never changes what the caller gets: whatever the
\* WebSocket service does with the message, the step that hands it over is
\* followed by the commit of the bet.
C21_NotificationFailureSwallowed ==
  [][\A c \in Calls : StepOf(c, "broadcast") => calls'[c].pc = "commit"]_vars

\* the number of times the callback of db.transaction has been run for an
\* invocation: placeBet calls db.transaction once (line 49)
Attempts(c) == IF calls[c].pc = "idle" THEN 0 ELSE 1

\* C22: a conflict signalled by the store is retried; the caller sees the
\* conflict only after the settlement has been attempted more than once.
C22_ConflictRetried ==
  \A c \in Calls :
    calls[c].result = "TransactionConflict" => Attempts(c) > 1

\* what a bet adds to the grand pool when it runs alone (lines 107-120)
GrandContribution(c) ==
  IF Games[calls[c].gameId].jackpotGroup # NoGroup /\ pools["grand"].isActive
  THEN RoundDiv(ContributionNum(calls[c].wager, "grand"), RateScale)
  ELSE 0

\* the jackpot a bet is paid when the bets run one after the other and bet
\* d ran before it (d = 0: it ran first): the pool starts at its seed value
\* and an award takes it back there (lines 123-140)
SequentialJackpot(c, d) ==
  LET seed == pools["grand"].seedValue
      base == IF d = 0 THEN seed
              ELSE IF calls[d].isJackpotWin THEN seed
              ELSE seed + GrandContribution(d)
  IN IF calls[c].isJackpotWin THEN base + GrandContribution(c) ELSE 0

\* the wallet of bet c after that sequential execution: the wager leaves
\* and the win enters the balance type of the bet (lines 143-160), cashback
\* and free spins enter the bonus balance (lines 188-207)
SequentialWallet(c, d) ==
  LET start == DistinctBalances[Key(c)]
      net == calls[c].baseWin + SequentialJackpot(c, d) - calls[c].wager
      rewards == RoundDiv(calls[c].cashbackNum, 100)
                   + FreeSpinsAmount(calls[c].levelUp)
  IN IF calls[c].betType = "real"
     THEN [realBalance |-> start.realBalance + net,
           bonusBalance |-> start.bonusBalance + rewards]
     ELSE [realBalance |-> start.realBalance,
           bonusBalance |-> start.bonusBalance + net + rewards]

\* C23: concurrent affordable bets of distinct users on distinct wallets
\* all succeed (a notification that could not be delivered set aside), and
\* the wallets end with the balances of some sequential execution of the
\* same bets with the same outcomes.
C23_DistinctBetsSerializable ==
  (\A c \in Calls : calls[c].pc = "done" /\ calls[c].result # "send failed")
  => /\ \A c \in Calls : Succeeded(c)
     /\ \E first \in Calls :
          \A c \in Calls :
            wallets[Key(c)] = SequentialWallet(c, IF c = first THEN 0 ELSE first)

\* C24: debitFromWallet throws "Wallet not found" when the wallet does not
\* exist and "Insufficient balance" when the balance it selects, as it reads
\* it, is below the amount; in both cases no balance of any wallet changes;
\* a debit whose balance covers the amount is not rejected.
C24_DebitRejections ==
  [][\A c \in WalletCalls :
       (calls[c].pc = "idle" /\ calls'[c].op = "debit") =>
         LET key == <<calls'[c].userId, calls'[c].operatorId>>
             rejected(why) == /\ calls'[c].pc = "done" /\ calls'[c].result = why
                              /\ wallets' = wallets
         IN IF key \notin DOMAIN wallets THEN rejected("Wallet not found")
            ELSE LET selected == IF calls'[c].isReal THEN wallets[key].realBalance
                                 ELSE wallets[key].bonusBalance
                 IN IF selected < calls'[c].amount
                    THEN rejected("Insufficient balance")
                    ELSE calls'[c].pc = "update"]_vars

\* a debit was rejected for each reason and a third one went through
C24_Reached ==
  \E c, d, e \in WalletCalls :
    /\ calls[c].op = "debit" /\ calls[c].result = "Wallet not found"
    /\ calls[d].op = "debit" /\ calls[d].result = "Insufficient balance"
    /\ calls[e].op = "debit" /\ calls[e].result = "ok"

\* the sum of the amounts the successful calls in S of one kind applied to
\* one balance type of one wallet
RECURSIVE Applied(_, _, _, _)
Applied(op, key, isReal, S) ==
  IF S = {} THEN 0
  ELSE LET c == CHOOSE x \in S : TRUE
       IN (IF /\ calls[c].op = op /\ calls[c].result = "ok"
              /\ Key(c) = key /\ calls[c].isReal = isReal
           THEN calls[c].amount ELSE 0)
            + Applied(op, key, isReal, S \ {c})

\* C25: no wallet mutation is lost: at every moment each balance is its
\* initial value plus the credits minus the debits applied to that balance
\* type, and a call changes only the balance type it names, of its wallet.
C25_NoLostUpdate ==
  /\ [](\A key \in DOMAIN wallets :
          /\ wallets[key].realBalance
               = SeededWallets[key].realBalance
                   + Applied("credit", key, TRUE, WalletCalls)
                   - Applied("debit", key, TRUE, WalletCalls)
          /\ wallets[key].bonusBalance
               = SeededWallets[key].bonusBalance
                   + Applied("credit", key, FALSE, WalletCalls)
                   - Applied("debit", key, FALSE, WalletCalls))
  /\ [][\A c \in WalletCalls :
          calls'[c] # calls[c] =>
            \A key \in DOMAIN wallets :
              /\ key # <<calls'[c].userId, calls'[c].operatorId>>
                   => wallets'[key] = wallets[key]
              /\ calls'[c].isReal
                   => wallets'[key].bonusBalance = wallets[key].bonusBalance
              /\ ~calls'[c].isReal
                   => wallets'[key].realBalance = wallets[key].realBalance]_vars

\* a debit read the balance, a credit and another debit of the same balance
\* were applied, and then the first debit was applied too
C25_Reached ==
  \E c, d, e \in WalletCalls :
    /\ calls[c].op = "debit" /\ calls[d].op = "debit" /\ calls[e].op = "credit"
    /\ c # d
    /\ \A x \in {c, d, e} :
         /\ calls[x].result = "ok" /\ calls[x].isReal
         /\ Key(x) = <<"u1", "o1">>
    /\ wallets[<<"u1", "o1">>].realBalance < 0

\* C26: the bet log is append-only with one row per settled wager: the
\* table changes only when a bet commits, and then by one row added after
\* the rows it had, which stay as they were; there are as many rows as
\* successful bets, so a failed bet has added none.
C26_BetLogAppendOnly ==
  /\ [][betLogs' # betLogs =>
          /\ \E c \in Calls : StepOf(c, "commit") /\ calls'[c].result = "ok"
          /\ Len(betLogs') = Len(betLogs) + 1
          /\ SubSeq(betLogs', 1, Len(betLogs)) = betLogs]_vars
  /\ [](Len(betLogs) = Cardinality({c \in Calls : Succeeded(c)}))

\* one bet has succeeded, one has failed after its row was written inside
\* the transaction, and the table holds one row
C26_Reached ==
  \E c, d \in Calls :
    /\ Succeeded(c) /\ calls[d].result = "send failed"
    /\ Len(betLogs) = 1

\* C27: the post-bet balances of the bet-log row and of the returned result
\* are the balances the wallet has when the settlement ends; stated for a
\* bet that runs with no other bet started.
C27_PostBalancesAreFinal ==
  [][\A c \in Calls :
       (StepOf(c, "commit") /\ \A d \in Calls \ {c} : calls[d].pc = "idle")
       => LET row == betLogs'[Len(betLogs')]
              wallet == wallets'[Key(c)]
          IN /\ row.postRealBalance = wallet.realBalance
             /\ row.postBonusBalance = wallet.bonusBalance
             /\ calls'[c].updatedBalances = wallet]_vars

\* what the invocations in S of one operation have credited to the real
\* balance for one row (a withdrawal refunded, a deposit paid in)
RECURSIVE CreditedFor(_, _, _)
CreditedFor(op, target, S) ==
  IF S = {} THEN 0
  ELSE LET c == CHOOSE x \in S : TRUE
       IN (IF calls[c].op = op /\ calls[c].target = target
           THEN calls[c].credited ELSE 0)
            + CreditedFor(op, target, S \ {c})

\* C28: a withdrawal is processed at most once: its status only goes from
\* PENDING to COMPLETED or REJECTED and then stays; an action on a
\* withdrawal that is no longer PENDING fails with "Withdrawal not found or
\* already processed" and changes no balance; and (send failures set aside)
\* the amount is returned to the real balance at most once, exactly once
\* for a REJECTED withdrawal and never for a COMPLETED one.
C28_WithdrawalProcessedOnce ==
  /\ [][/\ \A w \in DOMAIN withdrawals :
             withdrawals'[w].status # withdrawals[w].status
             => /\ withdrawals[w].status = "PENDING"
                /\ withdrawals'[w].status \in {"COMPLETED", "REJECTED"}
        /\ \A c \in Calls :
             (/\ calls[c].pc = "idle" /\ calls'[c].op = "processWithdrawal"
              /\ calls'[c].target \in DOMAIN withdrawals
              /\ withdrawals[calls'[c].target].status # "PENDING")
             => /\ calls'[c].result = "Withdrawal not found or already processed"
                /\ wallets' = wallets]_vars
  /\ []((\A c \in Calls : calls[c].result # "send failed")
        => \A w \in DOMAIN withdrawals :
             LET refunded == CreditedFor("processWithdrawal", w, Calls)
             IN /\ refunded <= withdrawals[w].amount
                /\ withdrawals[w].status = "REJECTED"
                     => refunded = withdrawals[w].amount
                /\ withdrawals[w].status = "COMPLETED" => refunded = 0)

\* C29: a deposit is credited at most once: its status only goes from
\* PENDING to COMPLETED; a completeDeposit for a reference with no PENDING
\* deposit fails with "Deposit not found or already processed" and changes
\* no balance; and (send failures set aside) the completions of one deposit
\* together credit its amount at most once.
C29_DepositCreditedOnce ==
  /\ [][/\ \A i \in DOMAIN deposits :
             deposits'[i].status # deposits[i].status
             => deposits[i].status = "PENDING" /\ deposits'[i].status = "COMPLETED"
        /\ \A c \in Calls :
             (/\ calls[c].pc = "idle" /\ calls'[c].op = "completeDeposit"
              /\ \A i \in DOMAIN deposits :
                   deposits[i].referenceId = calls'[c].reference
                   => deposits[i].status # "PENDING")
             => /\ calls'[c].result = "Deposit not found or already processed"
                /\ wallets' = wallets]_vars
  /\ []((\A c \in Calls : calls[c].result # "send failed")
        => \A i \in DOMAIN deposits :
             CreditedFor("completeDeposit", i, Calls) <= deposits[i].amount)

\* C30: when a bonus-funded bet is settled and its wallet has active tasks,
\* the bet advances exactly one task, the most recently created active task
\* of the wallet, by the wager; every other task is unchanged.
C30_NewestTaskAdvanced ==
  [][\A c \in Calls :
       LET active == {i \in DOMAIN bonusTasks :
                        /\ bonusTasks[i].userId = calls[c].userId
                        /\ bonusTasks[i].operatorId = calls[c].operatorId
                        /\ ~bonusTasks[i].isCompleted}
       IN (StepOf(c, "commit") /\ calls[c].betType = "bonus" /\ active # {})
          => \E t \in active :
               /\ \A u \in active : bonusTasks[t].createdAt >= bonusTasks[u].createdAt
               /\ bonusTasks'[t].wagered = bonusTasks[t].wagered + calls[c].wager
               /\ \A u \in DOMAIN bonusTasks \ {t} : bonusTasks'[u] = bonusTasks[u]]_vars

\* the cashback rate (percent) of the highest level whose minExperience is
\* at most xp, 0 when there is no such level
CashbackRateAt(xp) ==
  LET rows == {i \in DOMAIN VipLevels : VipLevels[i].level = LevelOf(xp)}
  IN IF rows = {} THEN 0 ELSE VipLevels[CHOOSE i \in rows : TRUE].cashbackRate

\* what a settled bet has added to the bonus balance beyond the win and the
\* wager of a bonus-funded bet and the free spins of its level-up: its
\* cashback
CashbackOf(c) ==
  calls[c].eff.bonus
    - (IF calls[c].betType = "bonus" THEN calls[c].winAmount - calls[c].wager ELSE 0)
    - FreeSpinsAmount(calls[c].levelUp)

\* C31: in a successful placeBet cashback is applied if and only if
\* winAmount < wager and the level the player's experience gives at that
\* moment has a positive cashback rate; it is applied once, and the amount
\* credited to the bonus balance is (wager - winAmount) * rate / 100, to the
\* cent (the scale of the balance column).
C31_CashbackOnLoss ==
  /\ [][\A c \in Calls :
          LET loss == calls[c].wager - calls[c].winAmount
              rate == CashbackRateAt(experience[calls[c].userId])
              paid == wallets'[Key(c)].bonusBalance - wallets[Key(c)].bonusBalance
          IN /\ StepOf(c, "xpUpdate")
                  => (calls'[c].pc = "cashbackRead" <=> loss > 0)
             /\ StepOf(c, "cashbackRead")
                  => /\ calls'[c].cashbackNum = loss * rate
                     /\ calls'[c].pc = "cashbackCredit" <=> rate > 0
             /\ StepOf(c, "cashbackCredit")
                  => /\ 2 * (100 * paid - calls[c].cashbackNum) <= 100
                     /\ 2 * (calls[c].cashbackNum - 100 * paid) <= 100
                     /\ wallets'[Key(c)].realBalance = wallets[Key(c)].realBalance]_vars
  /\ [](\A c \in Calls :
          Succeeded(c) =>
            /\ CashbackOf(c) > 0
                 <=> (calls[c].winAmount < calls[c].wager /\ calls[c].cashbackNum > 0)
            /\ 2 * (100 * CashbackOf(c) - calls[c].cashbackNum) <= 100
            /\ 2 * (calls[c].cashbackNum - 100 * CashbackOf(c)) <= 100)

\* one bet lost at a level without a cashback rate and got none, another
\* lost at a level with a rate and got a cashback that had to be rounded
C31_Reached ==
  \E c, d \in Calls :
    /\ Succeeded(c) /\ calls[c].winAmount < calls[c].wager /\ CashbackOf(c) = 0
    /\ Succeeded(d) /\ calls[d].winAmount < calls[d].wager /\ CashbackOf(d) > 0
    /\ 100 * CashbackOf(d) # calls[d].cashbackNum

\* the contribution of the bet to the grand pool has been stored
Landed(d) == calls[d].landedRound # NoValue

\* the contributions to the grand pool of the bets in S
RECURSIVE LandedSum(_)
LandedSum(S) ==
  IF S = {} THEN 0
  ELSE LET d == CHOOSE x \in S : TRUE
       IN GrandContribution(d) + LandedSum(S \ {d})

\* the contribution of d landed before award c read the pool, after the
\* last reset before that read
ReadByAward(c, d) ==
  /\ Landed(d) /\ calls[c].jackpotAmount > 0
  /\ calls[c].round = calls[d].landedRound + 1
  /\ c \notin calls[d].inWindowOf

\* the bet was credited the win it reports, the jackpot included
PaidOut(c) == calls[c].credited = calls[c].winAmount

\* C32: around an award of the grand pool a contribution that landed before
\* the award read the pool is part of the amount and is paid to the winner,
\* a contribution that landed after the last reset is in the pool, and when
\* no bet is running every contribution that is neither paid out nor in
\* the pool landed between the read and the reset of an award.
C32_LostOnlyInAwardWindow ==
  /\ pools["grand"].currentValue
       = pools["grand"].seedValue
           + LandedSum({d \in Calls : Landed(d) /\ calls[d].landedRound = Resets})
  /\ \A c \in Calls :
       calls[c].jackpotAmount > 0 =>
         /\ calls[c].jackpotAmount
              = pools["grand"].seedValue
                  + LandedSum({d \in Calls : ReadByAward(c, d)})
         /\ (calls[c].pc = "done" /\ \E d \in Calls \ {c} : ReadByAward(c, d))
              => PaidOut(c)
  /\ (\A c \in Calls : calls[c].pc \in {"idle", "done"})
       => \A d \in Calls :
            Landed(d) =>
              \/ calls[d].landedRound = Resets
              \/ \E c \in Calls \ {d} : ReadByAward(c, d) /\ PaidOut(c)
              \/ ReadByAward(d, d)
              \/ calls[d].inWindowOf # {}

\* C33: no bet_outcome notification is sent for a bet whose transaction
\* does not commit: every bet whose message was handed to the WebSocket
\* service has committed by then and has returned its result.
C33_NotifiedOnlyAfterCommit ==
  \A c \in sent : Succeeded(c)

\* C34: the requirement a task's completion is judged against is its
\* amount * wageringMultiplier: the bonus bet that writes a task marks it
\* completed exactly when the wagered it writes is at least that product.
C34_CompletionAgainstRequirement ==
  [][\A c \in Calls :
       (StepOf(c, "commit") /\ calls[c].txTask # <<>>) =>
         LET t == calls[c].txTask[1].id
         IN bonusTasks'[t].isCompleted
              <=> bonusTasks'[t].wagered >= Requirement(bonusTasks[t])]_vars

\* C35: COMPLETED is terminal: no step of a bet changes a task that is
\* completed (isCompleted stays true and wagered stays as it is), and no bet
\* selects a completed task.
C35_CompletedIsTerminal ==
  [][/\ \A t \in DOMAIN bonusTasks :
          bonusTasks[t].isCompleted => bonusTasks'[t] = bonusTasks[t]
     /\ \A c \in Calls :
          (StepOf(c, "taskSelect") /\ calls'[c].task # 0)
          => ~bonusTasks[calls'[c].task].isCompleted]_vars

\* a bonus-funded bet on wallet u1/o1, whose newest task is completed, has
\* advanced the older active task, a bonus-funded bet on wallet u1/o2, whose
\* only task is completed, has advanced none, and the completed rows are
\* as they were
C35_Reached ==
  \E c, d \in Calls :
    /\ Succeeded(c) /\ calls[c].betType = "bonus" /\ Key(c) = <<"u1", "o1">>
    /\ calls[c].wageringProgress # <<>>
    /\ bonusTasks[1].wagered = calls[c].wager
    /\ Succeeded(d) /\ calls[d].betType = "bonus" /\ Key(d) = <<"u1", "o2">>
    /\ calls[d].wageringProgress = <<>>
    /\ \A t \in {2, 3} : bonusTasks[t] = CompletedTasks[t]

\* the bets of a user that were told of a level-up to the level numbered
\* `level` and dispatched its reward (placeBet lines 200-207)
RewardedFor(user, level) ==
  {c \in Calls : calls[c].userId = user /\ calls[c].levelUp = level}

\* C36: each crossing of a level threshold by the experience of a user is
\* rewarded exactly once: when no bet is running, every level whose
\* threshold the experience has reached from below has had its reward
\* dispatched by exactly one bet of the user, and no other level by any.
C36_LevelUpRewardedOnce ==
  (\A c \in Calls : calls[c].pc \in {"idle", "done"})
  => \A u \in Users, i \in DOMAIN VipLevels :
       LET crossed == /\ VipLevels[i].minExperience > 0
                      /\ experience[u] >= VipLevels[i].minExperience
       IN Cardinality(RewardedFor(u, VipLevels[i].level))
            = IF crossed THEN 1 ELSE 0

\* the requests for a withdrawal that returned an id
Requested == {c \in Calls : calls[c].op = "requestWithdrawal" /\ Succeeded(c)}

\* C37: requestWithdrawal is all-or-nothing: a request that returned has
\* debited its amount from the real balance and its PENDING withdrawal row
\* and PENDING log row are in the tables; a request that threw has debited
\* nothing and has left no row; the tables hold one new row per request
\* that returned.
C37_RequestAllOrNothing ==
  /\ \A c \in Calls :
       (calls[c].op = "requestWithdrawal" /\ calls[c].pc = "done") =>
         IF calls[c].result = "ok"
         THEN /\ calls[c].debited = calls[c].amount
              /\ calls[c].target \in DOMAIN withdrawals
              /\ withdrawals[calls[c].target].userId = calls[c].userId
              /\ withdrawals[calls[c].target].amount = calls[c].amount
              /\ calls[c].log \in DOMAIN transactionLogs
         ELSE calls[c].debited = 0
  /\ Len(withdrawals) = Len(SeededWithdrawals) + Cardinality(Requested)
  /\ Len(transactionLogs) = Len(SeededLogs) + Cardinality(Requested)

\* the operator that was named when the deposit was initiated: the one of
\* the log row initiateDeposit wrote for it (lines 78-89)
InitiatedAt(deposit) ==
  LET own == {l \in DOMAIN transactionLogs :
                /\ transactionLogs[l].type = "DEPOSIT"
                /\ transactionLogs[l].metadata.depositId = deposit}
  IN transactionLogs[CHOOSE l \in own : TRUE].operatorId

\* C38: completeDeposit credits the wallet of the operator named when the
\* deposit was initiated and completes the log row of that deposit: its
\* credit changes no other wallet, and its commit changes no other log row.
C38_DepositOwnOperatorAndLog ==
  [][\A c \in Calls :
       calls[c].op = "completeDeposit" =>
         /\ StepOf(c, "depositCredit")
              => \A k \in DOMAIN wallets :
                   wallets'[k] # wallets[k]
                   => k = <<deposits[calls[c].target].userId,
                            InitiatedAt(calls[c].target)>>
         /\ StepOf(c, "financeCommit")
              => \A l \in DOMAIN transactionLogs :
                   transactionLogs'[l] # transactionLogs[l]
                   => /\ transactionLogs[l].type = "DEPOSIT"
                      /\ transactionLogs[l].metadata.depositId = calls[c].target]_vars

\* the real balance plus the bonus balance of a wallet
FundsOf(balances) == balances.realBalance + balances.bonusBalance

LookedUp(c) ==
  IF calls[c].pc = "xpUpdate"
  THEN {calls[c].currentXP, calls[c].currentXP + calls[c].wager * VipMultiplier}
  ELSE IF calls[c].pc = "cashbackRead" THEN {experience[calls[c].userId]}
  ELSE {}

\* C40: VIPService.getCurrentLevel and VIPRewardService.getCurrentVIPLevel
\* return the same level for every experience value a bet has its level
\* looked up for.
C40_LevelLookupsAgree ==
  \A c \in Calls :
    \A xp \in LookedUp(c) :
      LevelNumber(GetCurrentLevel(xp)) = LevelNumber(GetCurrentVIPLevel(xp))

====
